---------------------------- MODULE Spec2Model ----------------------------
(***************************************************************************)
(* A model of the WolframAlpha fallback skill (src/__init__.py):           *)
(*   - EnglishQuestionParser: two ordered regular expressions and the      *)
(*     _normalize step, computed on character sequences;                   *)
(*   - WolframAlphaSkill: the answer cache, the per-user last-query        *)
(*     record, credential resolution and the intent / common-query         *)
(*     handlers.                                                           *)
(* A Python str is a sequence of one-character strings.  A Python value    *)
(* that may be None is a sequence of length 0 (None) or 1 (the value).     *)
(* Utterances hold no newline, so the regular expressions' "." matches     *)
(* every character of an utterance.                                        *)
(***************************************************************************)
EXTENDS Integers, Sequences, FiniteSets, TLC

\* --------------------------------------------------------------------------
\* Python values
\* --------------------------------------------------------------------------
None == <<>>

Some(x) == <<x>>

SP == " "

\* max / min of a non-empty finite set of integers
SetMax(S) == CHOOSE x \in S : \A y \in S : y <= x

SetMin(S) == CHOOSE x \in S : \A y \in S : x <= y

\* s[i:] == w[0:len(w)] : the word w occurs in s at (1-based) position i
IsAt(s, i, w) ==
    /\ i >= 1
    /\ i + Len(w) - 1 <= Len(s)
    /\ \A j \in 1..Len(w) : s[i + j - 1] = w[j]

\* s[i] is a space
SpaceAt(s, i) == i >= 1 /\ i <= Len(s) /\ s[i] = SP

\* sub in s
Contains(s, sub) == \E i \in 1..(Len(s) + 1) : IsAt(s, i, sub)

\* s.index(sub), 1-based; only used where sub occurs in s
IndexOf(s, sub) == SetMin({i \in 1..(Len(s) + 1) : IsAt(s, i, sub)})

\* sep.join(parts)
RECURSIVE JoinFrom(_, _, _)
JoinFrom(parts, sep, n) ==
    IF n > Len(parts) THEN <<>>
    ELSE IF n = Len(parts) THEN parts[n]
    ELSE parts[n] \o sep \o JoinFrom(parts, sep, n + 1)

Join(parts, sep) == JoinFrom(parts, sep, 1)

\* s.split(sep) for a non-empty sep: the pieces between the non-overlapping
\* occurrences of sep, scanned left to right (empty pieces kept)
RECURSIVE SplitFrom(_, _, _, _)
SplitFrom(s, sep, i, start) ==
    IF i > Len(s) THEN <<SubSeq(s, start, Len(s))>>
    ELSE IF IsAt(s, i, sep)
         THEN <<SubSeq(s, start, i - 1)>> \o SplitFrom(s, sep, i + Len(sep), i + Len(sep))
         ELSE SplitFrom(s, sep, i + 1, start)

Split(s, sep) == SplitFrom(s, sep, 1, 1)

\* s.replace(old, new) for a non-empty old
Replace(s, old, new) == Join(Split(s, old), new)

\* s.rstrip('.')
RECURSIVE rstrip_dot(_)
rstrip_dot(s) ==
    IF Len(s) > 0 /\ s[Len(s)] = "." THEN rstrip_dot(SubSeq(s, 1, Len(s) - 1)) ELSE s

\* --------------------------------------------------------------------------
\* EnglishQuestionParser
\* --------------------------------------------------------------------------
\* (?P<QuestionWord>who|what|when|where|why|which|whose|convert|how old)
QuestionWordsA ==
    << <<"w","h","o">>, <<"w","h","a","t">>, <<"w","h","e","n">>,
       <<"w","h","e","r","e">>, <<"w","h","y">>, <<"w","h","i","c","h">>,
       <<"w","h","o","s","e">>, <<"c","o","n","v","e","r","t">>,
       <<"h","o","w"," ","o","l","d">> >>

\* (?P<QuestionVerb>is|are|was|were|to)
QuestionVerbsA ==
    << <<"i","s">>, <<"a","r","e">>, <<"w","a","s">>, <<"w","e","r","e">>, <<"t","o">> >>

\* (?P<QuestionWord>who|what|when|where|why|which|how)
QuestionWordsB ==
    << <<"w","h","o">>, <<"w","h","a","t">>, <<"w","h","e","n">>,
       <<"w","h","e","r","e">>, <<"w","h","y">>, <<"w","h","i","c","h">>,
       <<"h","o","w">> >>

\* \w : the word characters among the characters utterances are written in
WordChars ==
    {"a","b","c","d","e","f","g","h","i","j","k","l","m","n","o","p","q","r",
     "s","t","u","v","w","x","y","z","0","1","2","3","4","5","6","7","8","9","_"}

\* Where a question word of `words` can start in s: <<i, k>> when alternative
\* k occurs at i and a space follows it
WordStarts(s, words) ==
    {c \in (1..Len(s)) \X (1..Len(words)) :
        IsAt(s, c[1], words[c[2]]) /\ SpaceAt(s, c[1] + Len(words[c[2]]))}

\* First pattern, after the question word and its space at p: <<e, v>> when
\* Query1 is s[p+1..e] (empty for e = p), then a space, verb alternative v and
\* a space
VerbEndsA(s, p) ==
    {c \in (p..Len(s)) \X (1..Len(QuestionVerbsA)) :
        /\ SpaceAt(s, c[1] + 1)
        /\ IsAt(s, c[1] + 2, QuestionVerbsA[c[2]])
        /\ SpaceAt(s, c[1] + 2 + Len(QuestionVerbsA[c[2]]))}

\* The ways the first pattern can start to match s
CandidatesA(s) ==
    {c \in WordStarts(s, QuestionWordsA) :
        VerbEndsA(s, c[1] + Len(QuestionWordsA[c[2]])) # {}}

\* The match the backtracking search finds first: the leading ".*" is greedy
\* (the rightmost question word), alternatives are tried left to right,
\* Query1's ".*" is greedy (the rightmost verb).
MatchA(s) ==
    LET C == CandidatesA(s) IN
    IF C = {} THEN None
    ELSE LET i == SetMax({c[1] : c \in C})
             k == SetMin({c[2] : c \in {d \in C : d[1] = i}})
             w == QuestionWordsA[k]
             p == i + Len(w)
             E == VerbEndsA(s, p)
             e == SetMax({c[1] : c \in E})
             v == SetMin({c[2] : c \in {d \in E : d[1] = e}})
             verb == QuestionVerbsA[v]
         IN Some([QuestionWord |-> w,
                  Query1 |-> SubSeq(s, p + 1, e),
                  QuestionVerb |-> verb,
                  Query2 |-> SubSeq(s, e + 3 + Len(verb), Len(s))])

\* Second pattern, after the question word and its space at p: the positions
\* e where the verb \w+ = s[p+1..e] can end, a space following
VerbEndsB(s, p) ==
    {e \in (p + 1)..Len(s) :
        /\ \A j \in (p + 1)..e : s[j] \in WordChars
        /\ SpaceAt(s, e + 1)}

CandidatesB(s) ==
    {c \in WordStarts(s, QuestionWordsB) :
        VerbEndsB(s, c[1] + Len(QuestionWordsB[c[2]])) # {}}

MatchB(s) ==
    LET C == CandidatesB(s) IN
    IF C = {} THEN None
    ELSE LET i == SetMax({c[1] : c \in C})
             k == SetMin({c[2] : c \in {d \in C : d[1] = i}})
             w == QuestionWordsB[k]
             p == i + Len(w)
             e == SetMax(VerbEndsB(s, p))
         IN Some([QuestionWord |-> w,
                  QuestionVerb |-> SubSeq(s, p + 1, e),
                  Query |-> SubSeq(s, e + 2, Len(s))])

\* (a fault: the patterns in the other order)
regexes_swapped == <<"B", "A">>

\* self.regexes, in order
regexes == <<"A", "B">>

\* regex.match(utterance): the groupdict, or None
Match(regex, s) == IF regex = "A" THEN MatchA(s) ELSE MatchB(s)

\* _normalize(groupdict); the test `"Query1" and "Query2" in groupdict` is
\* `"Query2" in groupdict`; falling off the end returns None
_normalize(groupdict) ==
    IF "Query" \in DOMAIN groupdict THEN Some(groupdict)
    ELSE IF "Query2" \in DOMAIN groupdict
         THEN Some([QuestionWord |-> groupdict.QuestionWord,
                    QuestionVerb |-> groupdict.QuestionVerb,
                    Query |-> Join(<<groupdict.Query1, groupdict.Query2>>, <<SP>>)])
         ELSE None

\* parse(utterance): the first regex that matches decides
RECURSIVE parseFrom(_, _)
parseFrom(utterance, n) ==
    IF n > Len(regexes) THEN None
    ELSE LET match == Match(regexes[n], utterance)
         IN IF match # None THEN _normalize(match[1])
            ELSE parseFrom(utterance, n + 1)

\* (a fault: the whole utterance as the query when no pattern matches)
parse_fallback(utterance) ==
    IF parseFrom(utterance, 1) # None THEN parseFrom(utterance, 1)
    ELSE Some([QuestionWord |-> <<>>, QuestionVerb |-> <<>>, Query |-> utterance])

parse(utterance) == parseFrom(utterance, 1)

\* --------------------------------------------------------------------------
\* WolframAlphaSkill: values and helpers
\* --------------------------------------------------------------------------
\* normalize(utterance, remove_articles=False) of the host's English text
\* normaliser: split on whitespace, spell number words as digits and expand
\* contractions word by word, join with single spaces
NormalizeWord(w) ==
    IF w = <<"t","e","n">> THEN <<"1","0">>
    ELSE IF w = <<"w","h","a","t","'","s">> THEN <<"w","h","a","t"," ","i","s">>
    ELSE w

normalize(utterance) ==
    LET words == SelectSeq(Split(utterance, <<SP>>), LAMBDA w : w # <<>>)
    IN Join([n \in 1..Len(words) |-> NormalizeWord(words[n])], <<SP>>)

\* truthiness of a str-or-None value
Truthy(v) == v # None /\ v[1] # <<>>

S_convert == <<"c","o","n","v","e","r","t">>

S_to == <<"t","o">>

\* x.split(" ")[-1]
LastToken(x) == LET parts == Split(x, <<SP>>) IN parts[Len(parts)]

\* Lines 191-209: the query string built from the parsed question.
\* query.split("to")[1] raises IndexError when "to" does not occur.
BuildQuery(parsed_question) ==
    LET utt_query == parsed_question.Query
        query == Join(<<parsed_question.QuestionWord, parsed_question.QuestionVerb, utt_query>>, <<SP>>)
    IN  IF Contains(query, S_convert)
        THEN LET to_convert == SubSeq(utt_query, 1, IndexOf(utt_query, LastToken(utt_query)) - 1)
                 pieces == Split(query, S_to)
             IN IF Len(pieces) < 2
                THEN [raised |-> TRUE, query |-> <<>>]
                ELSE [raised |-> FALSE,
                      query |-> S_convert \o <<SP>> \o to_convert \o <<SP>> \o S_to \o <<SP>>
                                \o LastToken(pieces[2])]
        ELSE [raised |-> FALSE, query |-> query]

\* The users of the host and what the host's preference lookups return for
\* a message of each: preference_location, preference_unit, preference_user
Users == {"u1", "u2"}

preference_location(user) == [lat |-> "47.6", lng |-> "-122.3"]

preference_unit(user) == [measure |-> IF user = "u1" THEN "imperial" ELSE "metric"]

preference_user(user) == [email |-> IF user = "u1" THEN "u1@neon.ai" ELSE ""]

\* query_type = QueryApi.SHORT if self.server else QueryApi.SPOKEN
QueryType(srv) == IF srv THEN "QueryApi.SHORT" ELSE "QueryApi.SPOKEN"

\* key = (utterance, lat, lng, units, repr(query_type))
MakeKey(utterance, user, srv) ==
    <<utterance, preference_location(user).lat, preference_location(user).lng,
      preference_unit(user).measure, QueryType(srv)>>

\* (a fault: the cache is never consulted)
CacheGet_never(saved, key) == None

\* self.saved_answers.get(key): the entry, or None
CacheGet(saved, key) == IF key \in DOMAIN saved THEN Some(saved[key]) ELSE None

\* kwargs of the remote call: app_id only when self.appID is truthy
RemoteKwargs(app, lat, lng) ==
    [lat |-> lat, lng |-> lng,
     app_id |-> IF app # None /\ app # Some("") THEN app ELSE None]

\* (a fault: `if result is not None:`)
ShouldStore_notnone(result) == result # None

\* `if result:` before the cache write
ShouldStore(result) == Truthy(result)

\* The files of the host's keyed cache storage the skill names
CacheFileRead == "wolfram.cache"

CacheFileWritten == "wolfram.txt"

\* What one call of _query_wolfram does, given the remote service's reply
\* `response` should it be asked:
\*   raised   : the call ended in IndexError (line 208)
\*   result, key : the returned pair
\*   query    : the query string built (None when nothing parsed)
\*   cached   : the answer came from saved_answers
\*   outbound : the call of get_wolfram_alpha_response made, or None
\*   saved    : self.saved_answers after the call
\*   flushed  : update_cached_data was called
QueryOutcome ==
    [raised |-> FALSE, result |-> None, key |-> None, query |-> None, cached |-> FALSE,
     outbound |-> None, saved |-> <<>>, flushed |-> FALSE]

\* what users say: no question, a question of the second pattern, a
\* conversion (first pattern; "ten" is normalised to "10"), and a question
\* with "convert" and no "to"
Phrases ==
    { <<"h","e","l","l","o"," ","t","h","e","r","e">>,
      <<"w","h","a","t"," ","i","s"," ","p","i">>,
      <<"c","o","n","v","e","r","t"," ","t","e","n"," ","m","i","l","e","s"," ","t","o",
        " ","k","i","l","o","m","e","t","e","r","s">>,
      <<"w","h","a","t"," ","i","s"," ","c","o","n","v","e","r","t">> }

\* the "Request" keyword of the AskWolfram intent
S_Request == <<"a","s","k"," ","w","o","l","f","r","a","m">>

\* the messages of the AskWolfram intent
AskMessages ==
    {[utterance |-> S_Request \o <<SP>> \o ph, Request |-> S_Request, user |-> u] :
        ph \in Phrases, u \in Users}

\* message.data.get("utterance").replace(message.data.get("Request"), "")
StripRequest(message) == Replace(message.utterance, message.Request, <<>>)

\* Lines 186-209, the part of _query_wolfram that depends on the utterance
\* alone: the normalised utterance, the parsed question and the query built.
\* (x \in {e} binds x to the value of e, so that e is computed once.)
Prepare(utterance_in) ==
    CHOOSE prep \in
        {[utterance |-> utterance,
          parsed_question |-> parsed_question,
          built |-> IF parsed_question = None THEN [raised |-> FALSE, query |-> <<>>]
                    ELSE BuildQuery(parsed_question[1])] :
            <<utterance, parsed_question>> \in
                {<<u, parse(u)>> : u \in {normalize(utterance_in)}}} : TRUE

\* Lines 198-226, given lines 186-209's results
QueryPrepared(prep, user, response, saved, app, srv) ==
    IF prep.parsed_question = None
    THEN [QueryOutcome EXCEPT !.saved = saved]
    ELSE IF prep.built.raised
    THEN [QueryOutcome EXCEPT !.raised = TRUE, !.saved = saved]
    ELSE LET key == MakeKey(prep.utterance, user, srv)
             hit == CacheGet(saved, key)
             kwargs == RemoteKwargs(app, preference_location(user).lat,
                                    preference_location(user).lng)
             call == [query |-> prep.built.query, query_type |-> QueryType(srv),
                      units |-> preference_unit(user).measure, lat |-> kwargs.lat,
                      lng |-> kwargs.lng, app_id |-> kwargs.app_id]
             result == IF hit # None THEN Some(hit[1][1]) ELSE response
             store == ShouldStore(result)
         IN [raised |-> FALSE, result |-> result, key |-> Some(key),
             query |-> Some(prep.built.query), cached |-> hit # None,
             outbound |-> IF hit = None THEN Some(call) ELSE None,
             saved |-> IF store THEN (key :> <<result[1], prep.built.query>>) @@ saved
                       ELSE saved,
             flushed |-> store]

\* Prepare for each utterance the handlers pass to _query_wolfram (the
\* phrases, and the AskWolfram utterances with the keyword removed),
\* computed once
HandlerUtterances == Phrases \cup {StripRequest(m) : m \in AskMessages}

Prepared == [u \in HandlerUtterances |-> Prepare(u)]

_query_wolfram(utterance_in, user, response, saved, app, srv) ==
    CHOOSE out \in {QueryPrepared(prep, user, response, saved, app, srv) :
                        prep \in {Prepared[utterance_in]}} : TRUE

\* whether _query_wolfram would ask the remote service
AsksRemote(utterance_in, user, saved, app, srv) ==
    _query_wolfram(utterance_in, user, None, saved, app, srv).outbound # None

\* check_wolfram_credentials(cred_str): False for None or "", else whether the
\* service accepts the application id (resp.ok; a failed request gives False)
AcceptedAppIds == {"S-APPID", "L-APPID"}

check_wolfram_credentials(cred_str) ==
    /\ cred_str # None
    /\ cred_str[1] # ""
    /\ cred_str[1] \in AcceptedAppIds

\* (a fault: a default application id when none is found)
_get_app_id_default(settings_appId, waID, neon_key) ==
    IF check_wolfram_credentials(settings_appId) THEN settings_appId
    ELSE IF check_wolfram_credentials(waID) THEN waID
    ELSE IF neon_key # None THEN neon_key ELSE Some("DEMO")

\* _get_app_id: the per-user setting, then the local configuration, then the
\* shared key file (neon_key = None: find_neon_wolfram_key raises
\* FileNotFoundError, which is caught)
_get_app_id(settings_appId, waID, neon_key) ==
    IF check_wolfram_credentials(settings_appId) THEN settings_appId
    ELSE IF check_wolfram_credentials(waID) THEN waID
    ELSE neon_key

\* the pieces of the email body of handle_get_sources and of the GUI's url
S_BodyHead ==
    <<"\n","H","e","r","e"," ","i","s"," ","t","h","e"," ","a","n","s","w","e","r"," ",
      "t","o"," ","y","o","u","r"," ","q","u","e","s","t","i","o","n",":"," ">>

S_BodyLink ==
    <<"\n","V","i","e","w"," ","r","e","s","u","l","t"," ","o","n"," ","W","o","l","f",
      "r","a","m","|","A","l","p","h","a",":"," ","h","t","t","p","s",":","/","/","w","w",
      "w",".","w","o","l","f","r","a","m","a","l","p","h","a",".","c","o","m","/","i","n",
      "p","u","t","/","?","i","=">>

S_BodyTail == <<"\n","\n","-","N","e","o","n">>

S_GuiUrl ==
    <<"h","t","t","p","s",":","/","/","w","w","w",".","w","o","l","f","r","a","m","a","l",
      "p","h","a",".","c","o","m","/","i","n","p","u","t","?","i","=">>

\* x.replace(' ', '+')
PlusEncode(x) == Replace(x, <<SP>>, <<"+">>)

\* (a fault: the link built from the question as it is)
EmailBody_raw(last_query) ==
    S_BodyHead \o last_query \o S_BodyLink \o last_query \o S_BodyTail

\* body of the email of handle_get_sources
EmailBody(last_query) ==
    S_BodyHead \o last_query \o S_BodyLink \o PlusEncode(last_query) \o S_BodyTail

\* 'https://www.wolframalpha.com/input?i=' + utterance.replace(' ', '+')
GuiUrl(utterance) == S_GuiUrl \o PlusEncode(utterance)

\* --------------------------------------------------------------------------
\* The skill and its host
\* --------------------------------------------------------------------------
\* the number of handler calls and restarts a behaviour holds
MaxOps == 2

VARIABLES
    queries,        \* self.queries: user -> last utterance
    saved_answers,  \* self.saved_answers: key -> <<answer, query>>
    appID,          \* self.appID (None or Some(id))
    server,         \* self.server, the host's configuration
    storage,        \* the host's keyed cache storage: file name -> cached dict
    cqs_data,       \* the common-query payload the host holds for this skill
    last,           \* what the last call did (its inputs, result and effects)
    ops,            \* calls made so far
    p_pc, p_utterance, p_parsed   \* the parser run on its own

svars == <<queries, saved_answers, appID, server, storage, cqs_data, last, ops>>

pvars == <<p_pc, p_utterance, p_parsed>>

vars == <<queries, saved_answers, appID, server, storage, cqs_data, last, ops,
          p_pc, p_utterance, p_parsed>>

\* what the remote service may reply: no answer (None, after a sentinel or a
\* transport error), an empty string, or an answer
Responses ==
    {None, Some(<<>>), Some(<<"3",".","1","4",".">>), Some(<<"4","2">>)}

\* the credentials an installation may hold
SettingsAppIds == {None, Some("bad"), Some("S-APPID")}

LocalAppIds == {None, Some("bad"), Some("L-APPID")}

NeonKeys == {None, Some("N-APPID")}

CacheFiles == {CacheFileRead, CacheFileWritten}

NoEvent ==
    [op |-> "none", user |-> "", utterance |-> <<>>, raised |-> FALSE, result |-> None,
     key |-> None, query |-> None, cached |-> FALSE, outbound |-> None,
     flushed |-> FALSE, spoken |-> None, email |-> None, ret |-> None, gui |-> None,
     data |-> None, creds |-> None]

\* the event of a call that ran _query_wolfram with outcome r
QueryEvent(op, user, utterance, r) ==
    [NoEvent EXCEPT !.op = op, !.user = user, !.utterance = utterance,
                    !.raised = r.raised, !.result = r.result, !.key = r.key,
                    !.query = r.query, !.cached = r.cached, !.outbound = r.outbound,
                    !.flushed = r.flushed]

\* update_cached_data("wolfram.txt", self.saved_answers)
update_cached_data(store, filename, new_element) == [store EXCEPT ![filename] = new_element]

\* get_cached_data("wolfram.cache"): the dict stored under the name ({} when
\* nothing is)
get_cached_data(store, filename) == store[filename]

\* (a fault: the record is not written)
RecordQuery_none(q, user, utterance) == q

\* self.queries[user] = utterance
RecordQuery(q, user, utterance) == (user :> utterance) @@ q

\* result.rstrip('.')
SpokenText(result) == rstrip_dot(result)

\* (a fault: query and answer exchanged)
CQSPayload_swapped(utt, result, user, key) ==
    [query |-> result, answer |-> utt, user |-> user, key |-> key]

\* the callback data of a common-query match
CQSPayload(utt, result, user, key) ==
    [query |-> utt, answer |-> result, user |-> user, key |-> key]

\* the replies the remote service can give to this call: one of Responses
\* when it is asked, nothing to choose otherwise
Replies(utterance, user) ==
    IF AsksRemote(utterance, user, saved_answers, appID, server) THEN Responses ELSE {None}

\* WolframAlphaSkill.__init__ with the installation's credentials
SkillInit(settings_appId, waID, neon_key) ==
    /\ queries' = <<>>
    /\ saved_answers' = get_cached_data(storage, CacheFileRead)
    /\ appID' = _get_app_id(settings_appId, waID, neon_key)
    /\ last' = [NoEvent EXCEPT !.op = "__init__",
                  !.creds = Some([settings_appId |-> settings_appId, waID |-> waID,
                                  neon_key |-> neon_key])]

Init ==
    /\ server \in BOOLEAN
    /\ storage = [f \in CacheFiles |-> <<>>]
    /\ queries = <<>>
    /\ saved_answers = get_cached_data(storage, CacheFileRead)
    /\ \E s \in SettingsAppIds, l \in LocalAppIds, n \in NeonKeys :
          /\ appID = _get_app_id(s, l, n)
          /\ last = [NoEvent EXCEPT !.op = "__init__",
                       !.creds = Some([settings_appId |-> s, waID |-> l, neon_key |-> n])]
    /\ cqs_data = None
    /\ ops = 0
    /\ p_pc = "off"
    /\ p_utterance = <<>>
    /\ p_parsed = None

\* create_skill() after the host restarts: a new instance over the same
\* storage; the payload the host held for the old instance is gone
Restart ==
    /\ ops < MaxOps
    /\ \E s \in SettingsAppIds, l \in LocalAppIds, n \in NeonKeys : SkillInit(s, l, n)
    /\ cqs_data' = None
    /\ ops' = ops + 1
    /\ UNCHANGED <<server, storage, pvars>>

\* handle_ask_wolfram(message)
handle_ask_wolfram ==
    /\ ops < MaxOps
    /\ \E message \in AskMessages, gui_enabled \in BOOLEAN :
        \E utterance \in {StripRequest(message)}, user \in {message.user} :
        \E response \in Replies(utterance, user) :
        \E r \in {_query_wolfram(utterance, user, response, saved_answers, appID, server)} :
            LET ev == QueryEvent("handle_ask_wolfram", user, utterance, r)
            IN  IF r.raised
                THEN /\ last' = ev
                     /\ UNCHANGED <<queries, saved_answers, storage>>
                ELSE /\ saved_answers' = r.saved
                     /\ storage' = IF r.flushed
                                   THEN update_cached_data(storage, CacheFileWritten, r.saved)
                                   ELSE storage
                     /\ IF Truthy(r.result)
                        THEN /\ queries' = RecordQuery(queries, user, utterance)
                             /\ last' = [ev EXCEPT
                                   !.spoken = Some([dialog |-> "response",
                                                    response |-> SpokenText(r.result[1]),
                                                    email |-> ""]),
                                   !.gui = IF gui_enabled
                                           THEN Some([call |-> "show_url", url |-> GuiUrl(utterance)])
                                           ELSE None]
                        ELSE /\ queries' = queries
                             /\ last' = ev
    /\ ops' = ops + 1
    /\ UNCHANGED <<appID, server, cqs_data, pvars>>

\* CQS_match_query_phrase(utt, message): the return value is in last.ret, and
\* the host keeps the payload of a match
CQS_match_query_phrase ==
    /\ ops < MaxOps
    /\ \E utt \in Phrases, user \in Users :
        \E response \in Replies(utt, user) :
        \E r \in {_query_wolfram(utt, user, response, saved_answers, appID, server)} :
            LET ev == QueryEvent("CQS_match_query_phrase", user, utt, r)
                payload == CQSPayload(utt, r.result[1], user, r.key[1])
                to_speak == [dialog |-> "response", response |-> SpokenText(r.result[1]),
                             email |-> ""]
            IN  IF r.raised
                THEN /\ last' = ev
                     /\ cqs_data' = None
                     /\ UNCHANGED <<saved_answers, storage>>
                ELSE /\ saved_answers' = r.saved
                     /\ storage' = IF r.flushed
                                   THEN update_cached_data(storage, CacheFileWritten, r.saved)
                                   ELSE storage
                     /\ IF Truthy(r.result)
                        THEN /\ last' = [ev EXCEPT
                                   !.ret = Some(<<utt, "CQSMatchLevel.GENERAL", to_speak, payload>>)]
                             /\ cqs_data' = Some(payload)
                        ELSE /\ last' = ev
                             /\ cqs_data' = None
    /\ ops' = ops + 1
    /\ UNCHANGED <<queries, appID, server, pvars>>

\* CQS_action(phrase, data): the host hands back the payload it holds, or
\* calls with no data
CQS_action ==
    /\ ops < MaxOps
    /\ \E data \in {cqs_data, None}, gui_enabled \in BOOLEAN :
        IF data # None
        THEN /\ queries' = RecordQuery(queries, data[1].user, data[1].query)
             /\ last' = [NoEvent EXCEPT !.op = "CQS_action", !.user = data[1].user,
                           !.data = data,
                           !.gui = IF gui_enabled
                                   THEN Some([call |-> "show_url", url |-> GuiUrl(data[1].query)])
                                   ELSE None]
        ELSE /\ queries' = queries
             /\ last' = [NoEvent EXCEPT !.op = "CQS_action"]
    /\ cqs_data' = None
    /\ ops' = ops + 1
    /\ UNCHANGED <<saved_answers, appID, server, storage, pvars>>

\* handle_get_sources(message)
handle_get_sources ==
    /\ ops < MaxOps
    /\ \E user \in Users :
        LET ev == [NoEvent EXCEPT !.op = "handle_get_sources", !.user = user] IN
        IF user \in DOMAIN queries
        THEN LET last_query == queries[user]
                 email_addr == preference_user(user).email
             IN IF email_addr # ""
                THEN last' = [ev EXCEPT
                        !.email = Some([title |-> "Wolfram|Alpha Source",
                                        body |-> EmailBody(last_query),
                                        email_addr |-> email_addr]),
                        !.spoken = Some([dialog |-> "sent.email", response |-> <<>>,
                                         email |-> email_addr])]
                ELSE last' = [ev EXCEPT
                        !.spoken = Some([dialog |-> "no.email", response |-> <<>>, email |-> ""])]
        ELSE last' = [ev EXCEPT
                !.spoken = Some([dialog |-> "no.info.to.send", response |-> <<>>, email |-> ""])]
    /\ ops' = ops + 1
    /\ UNCHANGED <<queries, saved_answers, appID, server, storage, cqs_data, pvars>>

\* stop()
stop ==
    /\ ops < MaxOps
    /\ \E gui_enabled \in BOOLEAN :
        last' = [NoEvent EXCEPT !.op = "stop",
                   !.gui = IF gui_enabled THEN Some([call |-> "clear", url |-> <<>>]) ELSE None]
    /\ ops' = ops + 1
    /\ UNCHANGED <<queries, saved_answers, appID, server, storage, cqs_data, pvars>>

Next ==
    \/ handle_ask_wolfram
    \/ CQS_match_query_phrase
    \/ CQS_action
    \/ handle_get_sources
    \/ stop
    \/ Restart

Spec == Init /\ [][Next]_vars

\* --------------------------------------------------------------------------
\* The parser alone, on every utterance of up to MaxTokens words
\* --------------------------------------------------------------------------
MaxTokens == 4

\* words of the parser's patterns, a word that holds a question word, a word
\* with a character that is not a word character, and the empty word (two
\* spaces in a row, or a space at an end)
ParserWords ==
    { <<"w","h","a","t">>, <<"w","h","o","s","e">>, <<"h","o","w">>, <<"o","l","d">>,
      <<"i","s">>, <<"t","o">>, <<"s","o","m","e","w","h","a","t">>, <<"1","0","%">>, <<>> }

RECURSIVE TokenSeqs(_)
TokenSeqs(n) ==
    IF n = 0 THEN {<<>>}
    ELSE LET shorter == TokenSeqs(n - 1)
         IN shorter \cup {t \o <<w>> : t \in {x \in shorter : Len(x) = n - 1}, w \in ParserWords}

ParserUtterances == {Join(t, <<SP>>) : t \in TokenSeqs(MaxTokens)}

ParseInit ==
    /\ p_pc = "call"
    /\ p_utterance \in ParserUtterances
    /\ p_parsed = None
    /\ server = FALSE
    /\ storage = [f \in CacheFiles |-> <<>>]
    /\ queries = <<>>
    /\ saved_answers = <<>>
    /\ appID = None
    /\ last = NoEvent
    /\ cqs_data = None
    /\ ops = 0

\* parsed_question = self.question_parser.parse(utterance)
ParseStep ==
    /\ p_pc = "call"
    /\ p_parsed' = parse(p_utterance)
    /\ p_pc' = "done"
    /\ UNCHANGED <<p_utterance, svars>>

SpecParse == ParseInit /\ [][ParseStep]_vars

\* --------------------------------------------------------------------------
\* Properties
\* --------------------------------------------------------------------------
\* the calls that run _query_wolfram
IsQueryOp(e) == e.op \in {"handle_ask_wolfram", "CQS_match_query_phrase"}

S_Convert10 ==
    <<"c","o","n","v","e","r","t"," ","1","0"," ","m","i","l","e","s"," ","t","o"," ",
      "k","i","l","o","m","e","t","e","r","s">>

\* the handler utterances that, normalised, match neither pattern
NoMatchUtterances ==
    {u \in HandlerUtterances :
        \E n \in {normalize(u)} : MatchA(n) = None /\ MatchB(n) = None}

\* C1: when a call of _query_wolfram got a non-empty answer from the remote
\* service (one outbound call), the next call on the same instance with the
\* same key makes no outbound call and returns the same answer: one outbound
\* call over the two.
C1_CacheIdempotence ==
    [][ ( /\ IsQueryOp(last) /\ IsQueryOp(last')
          /\ ops' = ops + 1
          /\ last.outbound # None
          /\ Truthy(last.result)
          /\ last'.key = last.key )
        => ( /\ last'.outbound = None
             /\ last'.cached
             /\ last'.result = last.result ) ]_vars

\* a second call served from the cache the first call filled
C1_Witness ==
    /\ ops = 2
    /\ IsQueryOp(last)
    /\ last.cached
    /\ last.outbound = None
    /\ Truthy(last.result)

\* C2: when a question misses the cache and the remote service's answer is
\* absent or empty, handle_ask_wolfram speaks nothing and saved_answers and
\* the cache storage stay as they are (no entry, no flush); no cache entry,
\* in memory or stored, ever holds an empty answer.
C2_NoAnswerFromBackend ==
    /\ [][ ( /\ IsQueryOp(last')
             /\ ops' = ops + 1
             /\ last'.outbound # None
             /\ ~Truthy(last'.result) )
           => ( /\ last'.spoken = None
                /\ last'.ret = None
                /\ ~last'.flushed
                /\ saved_answers' = saved_answers
                /\ storage' = storage
                /\ queries' = queries ) ]_vars
    /\ [](/\ \A k \in DOMAIN saved_answers : saved_answers[k][1] # <<>>
          /\ \A f \in CacheFiles : \A k \in DOMAIN storage[f] : storage[f][k][1] # <<>>)

\* the remote service was asked and gave an empty answer
C2_Witness ==
    /\ last.op = "handle_ask_wolfram"
    /\ last.outbound # None
    /\ last.result = Some(<<>>)
    /\ last.spoken = None

\* C3: for an utterance that matches neither pattern, parse gives None and
\* _query_wolfram returns (None, None) without an outbound call, a cache
\* write or a flush; nothing is spoken and no last query is recorded.
C3_ParseFailure ==
    /\ [][ ( /\ IsQueryOp(last')
             /\ ops' = ops + 1
             /\ last'.utterance \in NoMatchUtterances )
           => ( /\ ~last'.raised
                /\ last'.result = None
                /\ last'.key = None
                /\ last'.outbound = None
                /\ ~last'.flushed
                /\ last'.spoken = None
                /\ last'.ret = None
                /\ saved_answers' = saved_answers
                /\ storage' = storage
                /\ queries' = queries ) ]_vars
    /\ [](\A u \in NoMatchUtterances : Prepared[u].parsed_question = None)

\* an utterance that matches neither pattern was handled
C3_Witness ==
    /\ last.op = "handle_ask_wolfram"
    /\ last.utterance \in NoMatchUtterances
    /\ ops = 2
    /\ DOMAIN saved_answers # {}

\* C4 (as claimed): a new instance starts with the entries the old one wrote
\* to the cache storage.
C4_CachePersistence ==
    last.op = "__init__" => saved_answers = storage[CacheFileWritten]

\* C5: handle_get_sources has one of three outcomes: with a recorded query
\* and an email, one email whose body holds the recorded question and the
\* link with each space replaced by '+', and the dialog sent.email; with no
\* recorded query, the dialog no.info.to.send and no email; with a recorded
\* query and no email, the dialog no.email and no email.  The last-query
\* record and the cache are left as they are.
C5_SourceRequest ==
    [][ (last'.op = "handle_get_sources" /\ ops' = ops + 1)
        => LET u == last'.user
               email_addr == preference_user(u).email
           IN /\ queries' = queries
              /\ saved_answers' = saved_answers
              /\ storage' = storage
              /\ last'.spoken # None
              /\ IF u \notin DOMAIN queries
                 THEN last'.spoken[1].dialog = "no.info.to.send" /\ last'.email = None
                 ELSE IF email_addr = ""
                 THEN last'.spoken[1].dialog = "no.email" /\ last'.email = None
                 ELSE LET q == queries[u]
                          body == last'.email[1].body
                          link == SubSeq(body, Len(S_BodyHead) + Len(q) + Len(S_BodyLink) + 1,
                                         Len(body) - Len(S_BodyTail))
                      IN /\ last'.spoken[1].dialog = "sent.email"
                         /\ last'.spoken[1].email = email_addr
                         /\ last'.email # None
                         /\ last'.email[1].email_addr = email_addr
                         /\ IsAt(body, 1, S_BodyHead \o q \o S_BodyLink)
                         /\ IsAt(body, Len(body) - Len(S_BodyTail) + 1, S_BodyTail)
                         /\ Len(link) = Len(q)
                         /\ \A i \in 1..Len(q) : link[i] = IF q[i] = SP THEN "+" ELSE q[i] ]_vars

\* an email about a recorded question with a space in it was sent
C5_Witness ==
    /\ last.op = "handle_get_sources"
    /\ last.email # None
    /\ last.user \in DOMAIN queries
    /\ Contains(queries[last.user], <<SP>>)

NoCredential(creds) ==
    /\ ~check_wolfram_credentials(creds.settings_appId)
    /\ ~check_wolfram_credentials(creds.waID)
    /\ creds.neon_key = None

\* C8 (as claimed): without a credential a question that misses the cache
\* makes no outbound call, and nothing is spoken or cached.
C8_CredentialUnavailable ==
    ( /\ IsQueryOp(last)
      /\ appID = None
      /\ last.key # None
      /\ ~last.cached )
    => ( /\ last.outbound = None
         /\ last.spoken = None
         /\ ~last.flushed )

\* C8 (amended): when no usable credential is found the instance starts with
\* appID = None; a question that misses the cache then still makes the
\* outbound call, without an app_id argument (with a credential the call
\* carries it), and the reply is handled as any other; cache hits are served
\* without a call.
C8_KeylessCall ==
    /\ (last.op = "__init__" /\ NoCredential(last.creds[1])) => appID = None
    /\ (IsQueryOp(last) /\ last.key # None /\ ~last.cached)
         => /\ last.outbound # None
            /\ last.outbound[1].app_id = appID
            /\ last.flushed = Truthy(last.result)
    /\ (IsQueryOp(last) /\ last.cached)
         => /\ last.outbound = None
            /\ Truthy(last.result)

\* without a credential, the remote service was asked and its answer stored
C8_Witness ==
    /\ IsQueryOp(last)
    /\ appID = None
    /\ last.outbound # None
    /\ last.outbound[1].app_id = None
    /\ Truthy(last.result)
    /\ last.flushed

\* C9: parse gives the first pattern's QuestionWord and QuestionVerb with
\* Query = Query1 + " " + Query2 whenever the first pattern matches (also when
\* the second would), the second pattern's groups as they are only when the
\* first does not match, and None exactly when neither matches; a result
\* always has a Query.
C9_OrderedParsing ==
    p_pc = "done" =>
        LET a == MatchA(p_utterance)
            b == MatchB(p_utterance)
        IN /\ a # None =>
                p_parsed = Some([QuestionWord |-> a[1].QuestionWord,
                                 QuestionVerb |-> a[1].QuestionVerb,
                                 Query |-> a[1].Query1 \o <<SP>> \o a[1].Query2])
           /\ (a = None /\ b # None) => p_parsed = b
           /\ (a = None /\ b = None) <=> p_parsed = None
           /\ p_parsed # None => "Query" \in DOMAIN p_parsed[1]

\* both patterns match and the first one's groups were returned
C9_Witness ==
    /\ p_pc = "done"
    /\ MatchA(p_utterance) # None
    /\ MatchB(p_utterance) # None
    /\ p_parsed # None
    /\ p_parsed # MatchB(p_utterance)
    /\ MatchA(p_utterance)[1].Query1 # <<>>
    /\ MatchA(p_utterance)[1].Query2 # <<>>

\* C10 (as claimed): for "convert 10 miles to kilometers" the query built,
\* sent to the remote service and stored in the cache entry is
\* "convert 10 miles to kilometers".
C10_ConvertRewrite ==
    ( /\ IsQueryOp(last)
      /\ last.key # None
      /\ last.key[1][1] = S_Convert10 )
    => ( /\ last.query = Some(S_Convert10)
         /\ (last.outbound # None => last.outbound[1].query = S_Convert10)
         /\ (last.flushed => saved_answers[last.key[1]][2] = S_Convert10) )

=============================================================================
